---- MODULE Spec2Model ----
(***************************************************************************)
(* Model of streamlit_app.py: the GPS coordinate resolver                  *)
(* (extract_gps_from_exif), the metadata decoder, the optional extractors  *)
(* and the presenter main() that drives them for one uploaded image.       *)
(*                                                                         *)
(* Python values are records tagged by their type (field t).  A float is   *)
(* abstracted to the exact fraction [n, d] it approximates; a coordinate   *)
(* returned by round(x, 7) is the integer number of 1e-7 degrees.          *)
(***************************************************************************)
EXTENDS Integers, Sequences, FiniteSets, TLC

VARIABLES pc, flags, toggles, image, image_bytes, exif, gps, iptc,
          meta_summary, ocr_text, lang_code, notices, calls, document

vars == <<pc, flags, toggles, image, image_bytes, exif, gps, iptc,
          meta_summary, ocr_text, lang_code, notices, calls, document>>

(***************************************************************************)
(* Bounds of the model.                                                    *)
(***************************************************************************)
\* largest denominator of a degree rational; denominators range over 0..MaxDen
MaxDen == 1
\* longest text the text recognizer returns
MaxTextLen == 2

(***************************************************************************)
(* Python values.                                                          *)
(***************************************************************************)
None == [t |-> "none"]
Str(s) == [t |-> "str", s |-> s]
Bytes(b) == [t |-> "bytes", b |-> b]
PyInt(i) == [t |-> "int", i |-> i]
Tuple(e) == [t |-> "tuple", e |-> e]
Dict(d) == [t |-> "dict", d |-> d]

\* the empty mapping {}
EmptyMap == <<>>

\* bool(v)
Truthy(v) ==
    CASE v.t = "none" -> FALSE
      [] v.t = "str" -> v.s # <<>>
      [] v.t = "bytes" -> v.b # <<>>
      [] v.t = "int" -> v.i # 0
      [] v.t = "tuple" -> v.e # <<>>
      [] v.t = "dict" -> DOMAIN v.d # {}

\* d.get(k, default) on a mapping
DictGet(d, k, default) == IF k \in DOMAIN d THEN d[k] ELSE default

\* str.upper() on one character
UpperChar(c) ==
    CASE c = "s" -> "S"
      [] c = "w" -> "W"
      [] c = "n" -> "N"
      [] c = "e" -> "E"
      [] c = "a" -> "A"
      [] OTHER -> c

\* a plausible slip: the comparison without case folding
UpperNoFold(s) == s

\* str.upper()
Upper(s) == [i \in 1..Len(s) |-> UpperChar(s[i])]

\* the character of an ASCII byte
Chr(b) ==
    CASE b = 83 -> "S"
      [] b = 87 -> "W"
      [] b = 78 -> "N"
      [] b = 69 -> "E"
      [] b = 115 -> "s"
      [] b = 119 -> "w"
      [] b = 97 -> "a"
      [] b = 32 -> " "
      [] OTHER -> "?"

IsAscii(b) == b < 128

\* bytes.decode(errors="ignore"): the bytes that are no valid UTF-8 are dropped
\* (the byte sequences of the model hold ASCII bytes and the invalid byte 255)
DecodeIgnore(b) ==
    LET valid == SelectSeq(b, IsAscii)
    IN  [i \in 1..Len(valid) |-> Chr(valid[i])]

(***************************************************************************)
(* Floats, as exact fractions.                                             *)
(***************************************************************************)
Abs(x) == IF x < 0 THEN -x ELSE x

RECURSIVE GCD(_, _)
GCD(a, b) == IF b = 0 THEN a ELSE GCD(b, a % b)

Frac(n, d) ==
    LET g == GCD(Abs(n), Abs(d))
        s == IF d < 0 THEN -1 ELSE 1
    IN  IF n = 0 THEN [n |-> 0, d |-> 1] ELSE [n |-> s * (n \div g), d |-> s * (d \div g)]

Zero == [n |-> 0, d |-> 1]
FAdd(a, b) == Frac(a.n * b.d + b.n * a.d, a.d * b.d)
FDivInt(a, k) == Frac(a.n, a.d * k)
FNeg(a) == [n |-> -a.n, d |-> a.d]

\* float(v): [ok, f]; the texts of the model hold no digits, so float() of
\* a text raises ValueError; float() of a tuple, bytes, None raises TypeError
ToFloat(v) ==
    IF v.t = "int" THEN [ok |-> TRUE, f |-> Frac(v.i, 1)]
    ELSE [ok |-> FALSE, f |-> Zero]

\* a plausible slip: a zero denominator is not guarded and the failure of the
\* conversion is not caught, so the rational has no value
RationalNoGuard(r) ==
    IF r.t = "tuple" /\ Len(r.e) = 2 /\ ToFloat(r.e[1]).ok /\ ToFloat(r.e[2]).ok
       /\ ToFloat(r.e[2]).f.n # 0
    THEN [ok |-> TRUE, f |-> Frac(ToFloat(r.e[1]).f.n * ToFloat(r.e[2]).f.d,
                                  ToFloat(r.e[1]).f.d * ToFloat(r.e[2]).f.n)]
    ELSE [ok |-> FALSE, f |-> Zero]

\* _rational_to_float(r): [ok, f], ok always TRUE since every exception is caught
_rational_to_float(r) ==
    IF r.t = "tuple" /\ Len(r.e) = 2
    THEN IF Truthy(r.e[2])
         THEN LET a == ToFloat(r.e[1])
                  b == ToFloat(r.e[2])
              IN  IF a.ok /\ b.ok /\ b.f.n # 0
                  THEN [ok |-> TRUE, f |-> Frac(a.f.n * b.f.d, a.f.d * b.f.n)]
                  ELSE [ok |-> TRUE, f |-> Zero]
         ELSE [ok |-> TRUE, f |-> Zero]
    ELSE LET a == ToFloat(r)
         IN  IF a.ok THEN [ok |-> TRUE, f |-> a.f] ELSE [ok |-> TRUE, f |-> Zero]

\* number of decimal places of the coordinates
NDigits == 7
Scale == 10000000

\* k decimal digits of r/d (r < d), and the remainder
RECURSIVE LongDiv(_, _, _, _)
LongDiv(r, d, k, acc) ==
    IF k = 0 THEN <<acc, r>>
    ELSE LongDiv((r * 10) % d, d, k - 1, acc * 10 + ((r * 10) \div d))

\* round(x, 7), in units of 1e-7: half to even
Round7(x) ==
    LET a == Abs(x.n)
        q == a \div x.d
        dr == LongDiv(a % x.d, x.d, NDigits, 0)
        t == q * Scale + dr[1]
        up == 2 * dr[2] > x.d \/ (2 * dr[2] = x.d /\ t % 2 = 1)
        m == IF up THEN t + 1 ELSE t
    IN  IF x.n < 0 THEN -m ELSE m

(***************************************************************************)
(* GPS coordinate resolver.                                                *)
(***************************************************************************)
Absent == [kind |-> "none", lat |-> 0, lon |-> 0]
Raised == [kind |-> "raise", lat |-> 0, lon |-> 0]
Coord(lat, lon) == [kind |-> "coord", lat |-> lat, lon |-> lon]

\* `k in v` raises TypeError for a text (int operand) and for a number
InRaises(v) == v.t \in {"str", "int", "none"}

\* `k in v` for an int k: key of a mapping, byte of a byte sequence, element
\* of a tuple
In(k, v) ==
    CASE v.t = "dict" -> k \in DOMAIN v.d
      [] v.t = "bytes" -> \E i \in 1..Len(v.b) : v.b[i] = k
      [] v.t = "tuple" -> \E i \in 1..Len(v.e) : v.e[i] = PyInt(k)
      [] OTHER -> FALSE

\* v[i] (i from 0): [ok, v]; IndexError/TypeError as ok = FALSE
Subscript(v, i) ==
    CASE v.t = "tuple" ->
           IF i < Len(v.e) THEN [ok |-> TRUE, v |-> v.e[i + 1]] ELSE [ok |-> FALSE, v |-> None]
      [] v.t = "str" ->
           IF i < Len(v.s) THEN [ok |-> TRUE, v |-> Str(<<v.s[i + 1]>>)] ELSE [ok |-> FALSE, v |-> None]
      [] v.t = "bytes" ->
           IF i < Len(v.b) THEN [ok |-> TRUE, v |-> PyInt(v.b[i + 1])] ELSE [ok |-> FALSE, v |-> None]
      [] OTHER -> [ok |-> FALSE, v |-> None]

\* deg + (min / 60.0) + (sec / 3600.0)
Decimal(deg, min, sec) == FAdd(FAdd(deg, FDivInt(min, 60)), FDivInt(sec, 3600))

\* one axis, lines 81-83 / 84-86 and 88 / 89: [ok, f]
Axis(vals) ==
    LET e0 == Subscript(vals, 0)
        e1 == Subscript(vals, 1)
        e2 == Subscript(vals, 2)
    IN  IF e0.ok /\ e1.ok /\ e2.ok
        THEN LET a == _rational_to_float(e0.v)
                 b == _rational_to_float(e1.v)
                 c == _rational_to_float(e2.v)
             IN  IF a.ok /\ b.ok /\ c.ok
                 THEN [ok |-> TRUE, f |-> Decimal(a.f, b.f, c.f)]
                 ELSE [ok |-> FALSE, f |-> Zero]
        ELSE [ok |-> FALSE, f |-> Zero]

\* lines 91-94: the reference decoded when it is a byte sequence
RefText(ref) == IF ref.t = "bytes" THEN Str(DecodeIgnore(ref.b)) ELSE ref

\* ref.upper() == letter: [ok, is]; AttributeError when ref is no text
RefIs(ref, letter) ==
    IF ref.t = "str" THEN [ok |-> TRUE, is |-> Upper(ref.s) = <<letter>>]
    ELSE [ok |-> FALSE, is |-> FALSE]

\* the try block, lines 80-102
GpsTry(lat_ref, lon_ref, lat_vals, lon_vals) ==
    LET lat == Axis(lat_vals)
        lon == Axis(lon_vals)
        s == RefIs(RefText(lat_ref), "S")
        w == RefIs(RefText(lon_ref), "W")
    IN  IF lat.ok /\ lon.ok /\ s.ok /\ w.ok
        THEN Coord(Round7(IF s.is THEN FNeg(lat.f) ELSE lat.f),
                   Round7(IF w.is THEN FNeg(lon.f) ELSE lon.f))
        ELSE Absent

\* extract_gps_from_exif(exif)
extract_gps_from_exif(ex) ==
    LET gps_ifd == DictGet(ex, "GPSInfo", None)
    IN  IF ~Truthy(gps_ifd) THEN Absent
        ELSE IF InRaises(gps_ifd) THEN Raised
        ELSE IF ~(In(2, gps_ifd) /\ In(4, gps_ifd)) THEN Absent
        ELSE IF gps_ifd.t # "dict" THEN Raised
        ELSE LET lat_ref == DictGet(gps_ifd.d, 1, Str(<<"N">>))
                 lon_ref == DictGet(gps_ifd.d, 3, Str(<<"E">>))
                 lat_vals == DictGet(gps_ifd.d, 2, None)
                 lon_vals == DictGet(gps_ifd.d, 4, None)
             IN  IF ~Truthy(lat_vals) \/ ~Truthy(lon_vals) THEN Absent
                 ELSE GpsTry(lat_ref, lon_ref, lat_vals, lon_vals)

(***************************************************************************)
(* Metadata decoder.                                                       *)
(***************************************************************************)
\* ExifTags.TAGS, on the tag ids of the model
TAGS == (34853 :> "GPSInfo") @@ (272 :> "Model") @@ (306 :> "DateTime")

\* ExifTags.TAGS.get(tag_id, str(tag_id))
TagName(tag_id) == IF tag_id \in DOMAIN TAGS THEN TAGS[tag_id] ELSE ToString(tag_id)

\* decode_exif(image): [raised, exif]; image._getexif() is not guarded
decode_exif(img) ==
    IF ~img.has_getexif THEN [raised |-> FALSE, exif |-> EmptyMap]
    ELSE IF img.getexif_raises THEN [raised |-> TRUE, exif |-> EmptyMap]
    ELSE IF ~Truthy(img.raw_exif) THEN [raised |-> FALSE, exif |-> EmptyMap]
    ELSE [raised |-> FALSE,
          exif |-> [name \in {TagName(id) : id \in DOMAIN img.raw_exif.d} |->
                      img.raw_exif.d[CHOOSE id \in DOMAIN img.raw_exif.d : TagName(id) = name]]]

(***************************************************************************)
(* Caption/keyword extractor, text recognizer, language identifier.        *)
(***************************************************************************)
\* line 118: a byte value decoded, any other value kept
IptcValue(v) == IF v.t = "bytes" THEN Str(DecodeIgnore(v.b)) ELSE v

\* extract_iptc(image_bytes), under the flag iptc_available
extract_iptc(bytes, iptc_available) ==
    IF ~iptc_available THEN EmptyMap
    ELSE IF bytes.iptc_raises THEN EmptyMap
    ELSE [key \in DOMAIN bytes.info |-> IptcValue(bytes.info[key])]

\* perform_ocr(image), under the flag external_ocr_available; engine is what
\* pytesseract.image_to_string does: [raises, text]
perform_ocr(engine, external_ocr_available) ==
    IF ~external_ocr_available THEN <<>>
    ELSE IF engine.raises THEN <<>>
    ELSE engine.text

IsSpace(c) == c = " "

\* str.strip()
RECURSIVE LStrip(_)
LStrip(s) == IF s # <<>> /\ IsSpace(Head(s)) THEN LStrip(Tail(s)) ELSE s
RECURSIVE RStrip(_)
RStrip(s) ==
    IF s # <<>> /\ IsSpace(s[Len(s)]) THEN RStrip(SubSeq(s, 1, Len(s) - 1)) ELSE s
Strip(s) == RStrip(LStrip(s))

\* detect_language(text), under the flag language_detection_available;
\* detector is what langdetect.detect does on a text: [raises, code]
detect_language(text, detector, language_detection_available) ==
    IF ~language_detection_available \/ Strip(text) = <<>> THEN None
    ELSE IF detector.raises THEN None
    ELSE Str(detector.code)

\* google_maps_link(lat, lon)
google_maps_link(lat, lon) == <<"https://www.google.com/maps?q=", lat, ",", lon>>

(***************************************************************************)
(* Inputs.                                                                 *)
(***************************************************************************)
\* a (numerator, denominator) rational
Rat(n, d) == Tuple(<<PyInt(n), PyInt(d)>>)
\* a value float() rejects
Junk == Str(<<"a">>)
\* an entry the GPS mapping does not hold
NoEntry == [t |-> "missing"]

\* the GPS mapping with the entries 1..4 that are given
MkGps(e1, e2, e3, e4) ==
    LET all == <<e1, e2, e3, e4>>
    IN  Dict([k \in {i \in 1..4 : all[i].t # "missing"} |-> all[k]])

DegNums == {40, 181}
DegRationals == {Rat(n, d) : n \in DegNums, d \in 0..MaxDen} \cup {PyInt(90)}
MinSecRationals == {Rat(30, 1), Rat(30, 0), Junk}
FullTriples ==
    {Tuple(<<a, b, c>>) : a \in DegRationals, b \in MinSecRationals, c \in MinSecRationals}
ShortTriples == {Tuple(<<>>), Tuple(<<Rat(40, 1)>>), Tuple(<<Rat(40, 1), Rat(30, 1)>>)}
Triples == FullTriples \cup ShortTriples

LatRefs == {NoEntry, Str(<<"N">>), Str(<<"S">>), Str(<<"s">>), Bytes(<<83>>), PyInt(1)}
LonRefs == {NoEntry, Str(<<"E">>), Str(<<"W">>), Str(<<"w">>), Bytes(<<87>>), PyInt(1)}

\* GPS mappings that hold both value entries
FullGps ==
    {MkGps(r1, lat, r3, lon) : r1 \in LatRefs, lat \in Triples, r3 \in LonRefs, lon \in Triples}

SomeTriple == Tuple(<<Rat(40, 1), Rat(30, 1), Rat(30, 1)>>)

\* GPS mappings in which a value entry is missing or is no sequence
PartGps ==
    {MkGps(r1, lat, r3, lon) :
        r1 \in {NoEntry, Str(<<"S">>)}, r3 \in {NoEntry, Str(<<"W">>)},
        lat \in {NoEntry, None, PyInt(0), PyInt(5), SomeTriple},
        lon \in {NoEntry, None, PyInt(5), SomeTriple}}

\* GPSInfo values that are no mapping
OddGps ==
    {None, Str(<<>>), Str(<<"a">>), PyInt(0), PyInt(7),
     Bytes(<<>>), Bytes(<<97>>), Bytes(<<2, 4>>),
     Tuple(<<>>), Tuple(<<PyInt(1)>>), Tuple(<<PyInt(2), PyInt(4)>>)}

\* RawMetadataMaps given to the resolver
GpsExifs == {EmptyMap} \cup {("GPSInfo" :> g) : g \in FullGps \cup PartGps \cup OddGps}

\* GPSInfo values of the uploaded images
ImageGps ==
    {MkGps(Str(<<"N">>), SomeTriple, Str(<<"W">>), SomeTriple),
     MkGps(NoEntry, Tuple(<<Junk, Junk, Junk>>), NoEntry, Tuple(<<Rat(30, 0), Junk, Junk>>)),
     MkGps(Bytes(<<83>>), SomeTriple, Str(<<"E">>), SomeTriple),
     MkGps(Str(<<"N">>), SomeTriple, NoEntry, NoEntry),
     MkGps(Str(<<"N">>), Tuple(<<Rat(40, 1)>>), Str(<<"E">>), SomeTriple),
     PyInt(7)}

\* what image._getexif() returns
RawExifs ==
    {None, Dict(EmptyMap), Dict(272 :> Str(<<"a">>)), Dict(99999 :> Bytes(<<255>>))}
    \cup {Dict((34853 :> g) @@ (272 :> Str(<<"a">>))) : g \in ImageGps}

ImageOf(has, raises, raw) ==
    [file_name |-> <<"a", ".", "b", ".", "j">>, format |-> "JPEG", width |-> 4, height |-> 3,
     mode |-> "RGB", has_getexif |-> has, getexif_raises |-> raises, raw_exif |-> raw]

\* the uploaded images: without the accessor, with an accessor that raises,
\* with an accessor that returns
Images ==
    {ImageOf(FALSE, FALSE, None), ImageOf(TRUE, TRUE, None)}
    \cup {ImageOf(TRUE, FALSE, raw) : raw \in RawExifs}

\* what IPTCInfo makes of the uploaded bytes
ImageBytes ==
    {[iptc_raises |-> TRUE, info |-> EmptyMap],
     [iptc_raises |-> FALSE, info |-> EmptyMap],
     [iptc_raises |-> FALSE, info |-> ("caption" :> Bytes(<<97, 255>>))]}

Chars == {" ", "a"}
Texts == UNION {[1..n -> Chars] : n \in 0..MaxTextLen}

\* what pytesseract.image_to_string does
OcrEngines == {[raises |-> TRUE, text |-> <<>>]} \cup {[raises |-> FALSE, text |-> x] : x \in Texts}

\* what langdetect.detect does
Detectors == {[raises |-> TRUE, code |-> <<>>], [raises |-> FALSE, code |-> <<"e", "n">>]}

Flags == [ocr : BOOLEAN, lang : BOOLEAN, iptc : BOOLEAN]
Toggles == [ocr_enabled : BOOLEAN, lang_detect_enabled : BOOLEAN]

NoImage == ImageOf(FALSE, FALSE, None)
NoBytes == [iptc_raises |-> FALSE, info |-> EmptyMap]

(***************************************************************************)
(* Presenter: main(), one action per statement group.                      *)
(***************************************************************************)
NoGpsNotice == "No GPS info found."
OcrMissingNotice == "pytesseract not installed. See README to enable OCR."
LangMissingNotice == "Language detection package not installed."

\* a plausible slip: the coordinate tested by its value, so (0.0, 0.0) is falsy
GpsTruthyByValue(g) == g.kind = "coord" /\ (g.lat # 0 \/ g.lon # 0)

\* `if gps:` - a returned pair is a non-empty tuple, None is falsy
GpsTruthy(g) == g.kind = "coord"

\* a plausible slip: recognition runs whatever the toggle
OcrAlways(tog) == TRUE

\* `if ocr_enabled:`
OcrRequested(tog) == tog.ocr_enabled

\* a plausible slip: the language is detected whatever the toggle
LangOnAnyText(tog, text) == Strip(text) # <<>>

\* `if lang_detect_enabled and ocr_text.strip():`
LangRequested(tog, text) == tog.lang_detect_enabled /\ Strip(text) # <<>>

\* json.dumps raises TypeError on a byte sequence, at any depth
RECURSIVE JsonOk(_)
JsonOk(v) ==
    CASE v.t = "bytes" -> FALSE
      [] v.t = "tuple" -> \A i \in 1..Len(v.e) : JsonOk(v.e[i])
      [] v.t = "dict" -> \A k \in DOMAIN v.d : JsonOk(v.d[k])
      [] OTHER -> TRUE

Serializable(summary) ==
    /\ \A k \in DOMAIN summary["exif"] : JsonOk(summary["exif"][k])
    /\ \A k \in DOMAIN summary["iptc"] : JsonOk(summary["iptc"][k])

\* name.rsplit(".", 1)[0] + "_metadata.json"
ExportName(name) ==
    LET dots == {i \in 1..Len(name) : name[i] = "."}
        last == CHOOSE i \in dots : \A j \in dots : j <= i
    IN  (IF dots = {} THEN name ELSE SubSeq(name, 1, last - 1)) \o <<"_metadata.json">>

Fresh ==
    /\ image = NoImage
    /\ image_bytes = NoBytes
    /\ exif = EmptyMap
    /\ gps = Absent
    /\ iptc = EmptyMap
    /\ meta_summary = EmptyMap
    /\ ocr_text = <<>>
    /\ lang_code = None
    /\ notices = {}
    /\ calls = {}
    /\ document = [data |-> EmptyMap, file_name |-> <<>>]

Init ==
    /\ pc = "start"
    /\ flags \in Flags
    /\ toggles = [ocr_enabled |-> TRUE, lang_detect_enabled |-> TRUE]
    /\ Fresh

\* lines 154-162: the sidebar is read and no file is uploaded
NoUpload ==
    /\ pc = "start"
    /\ \E tog \in Toggles : toggles' = tog
    /\ notices' = notices \cup {"Upload an image to begin."}
    /\ pc' = "returned"
    /\ UNCHANGED <<flags, image, image_bytes, exif, gps, iptc, meta_summary, ocr_text,
                   lang_code, calls, document>>

\* lines 154-172: the sidebar is read and a readable image is uploaded
Upload ==
    /\ pc = "start"
    /\ \E tog \in Toggles : toggles' = tog
    /\ \E img \in Images : image' = img
    /\ \E b \in ImageBytes : image_bytes' = b
    /\ pc' = "decode"
    /\ UNCHANGED <<flags, exif, gps, iptc, meta_summary, ocr_text, lang_code, notices,
                   calls, document>>

\* line 176
DecodeStep ==
    /\ pc = "decode"
    /\ LET r == decode_exif(image)
       IN  /\ exif' = r.exif
           /\ pc' = IF r.raised THEN "crashed_decode" ELSE "gps"
    /\ calls' = calls \cup {"decode_exif"}
    /\ UNCHANGED <<flags, toggles, image, image_bytes, gps, iptc, meta_summary, ocr_text,
                   lang_code, notices, document>>

\* line 177
GpsStep ==
    /\ pc = "gps"
    /\ LET r == extract_gps_from_exif(exif)
       IN  /\ gps' = IF r.kind = "raise" THEN Absent ELSE r
           /\ pc' = IF r.kind = "raise" THEN "crashed_gps" ELSE "iptc"
    /\ calls' = calls \cup {"extract_gps_from_exif"}
    /\ UNCHANGED <<flags, toggles, image, image_bytes, exif, iptc, meta_summary, ocr_text,
                   lang_code, notices, document>>

\* line 178
IptcStep ==
    /\ pc = "iptc"
    /\ iptc' = extract_iptc(image_bytes, flags.iptc)
    /\ calls' = calls \cup {"extract_iptc"}
    /\ pc' = "summary"
    /\ UNCHANGED <<flags, toggles, image, image_bytes, exif, gps, meta_summary, ocr_text,
                   lang_code, notices, document>>

\* lines 180-208
SummaryStep ==
    /\ pc = "summary"
    /\ LET base == ("file_name" :> image.file_name) @@ ("format" :> image.format)
                   @@ ("size" :> [width |-> image.width, height |-> image.height])
                   @@ ("mode" :> image.mode) @@ ("exif" :> exif) @@ ("iptc" :> iptc)
           entry == [latitude |-> gps.lat, longitude |-> gps.lon,
                     maps_link |-> google_maps_link(gps.lat, gps.lon)]
           camera == IF Truthy(DictGet(exif, "Model", None)) THEN {"Camera"} ELSE {}
           date_time ==
               IF Truthy(DictGet(exif, "DateTimeOriginal", None))
                  \/ Truthy(DictGet(exif, "DateTime", None))
               THEN {"Captured"} ELSE {}
       IN  IF GpsTruthy(gps)
           THEN /\ meta_summary' = ("gps" :> entry) @@ base
                /\ notices' = notices \cup {"GPS", "Open in Google Maps"} \cup camera \cup date_time
           ELSE /\ meta_summary' = base
                /\ notices' = notices \cup {NoGpsNotice} \cup camera \cup date_time
    /\ pc' = "ocr"
    /\ UNCHANGED <<flags, toggles, image, image_bytes, exif, gps, iptc, ocr_text, lang_code,
                   calls, document>>

\* lines 211-222
OcrStep ==
    /\ pc = "ocr"
    /\ \E engine \in OcrEngines :
         IF OcrRequested(toggles)
         THEN IF flags.ocr
              THEN LET text == perform_ocr(engine, flags.ocr)
                   IN  /\ ocr_text' = text
                       /\ calls' = calls \cup {"perform_ocr"}
                       /\ notices' = notices \cup
                            (IF Strip(text) # <<>> THEN {"OCR Text"}
                             ELSE {"No text detected by OCR."})
              ELSE /\ ocr_text' = <<>>
                   /\ notices' = notices \cup {OcrMissingNotice}
                   /\ UNCHANGED calls
         ELSE /\ ocr_text' = <<>>
              /\ UNCHANGED <<notices, calls>>
    /\ pc' = "lang"
    /\ UNCHANGED <<flags, toggles, image, image_bytes, exif, gps, iptc, meta_summary,
                   lang_code, document>>

\* lines 224-233
LangStep ==
    /\ pc = "lang"
    /\ \E detector \in Detectors :
         IF LangRequested(toggles, ocr_text)
         THEN IF flags.lang
              THEN LET code == detect_language(ocr_text, detector, flags.lang)
                   IN  /\ lang_code' = code
                       /\ calls' = calls \cup {"detect_language"}
                       /\ notices' = notices \cup
                            (IF Truthy(code) THEN {"Detected language"}
                             ELSE {"Could not detect language."})
              ELSE /\ lang_code' = None
                   /\ notices' = notices \cup {LangMissingNotice}
                   /\ UNCHANGED calls
         ELSE /\ lang_code' = None
              /\ UNCHANGED <<notices, calls>>
    /\ pc' = "export"
    /\ UNCHANGED <<flags, toggles, image, image_bytes, exif, gps, iptc, meta_summary,
                   ocr_text, document>>

\* lines 236-244
ExportStep ==
    /\ pc = "export"
    /\ LET summary == ("ocr_text" :> ocr_text) @@ ("ocr_language" :> lang_code) @@ meta_summary
       IN  /\ meta_summary' = summary
           /\ IF Serializable(summary)
              THEN /\ document' = [data |-> summary, file_name |-> ExportName(image.file_name)]
                   /\ pc' = "exported"
              ELSE /\ pc' = "crashed_export"
                   /\ UNCHANGED document
    /\ UNCHANGED <<flags, toggles, image, image_bytes, exif, gps, iptc, ocr_text, lang_code,
                   notices, calls>>

\* lines 251-252: the host runs main() again, nothing is kept but the flags
Rerun ==
    /\ pc \in {"returned", "exported", "crashed_decode", "crashed_gps", "crashed_export"}
    /\ pc' = "start"
    /\ toggles' = [ocr_enabled |-> TRUE, lang_detect_enabled |-> TRUE]
    /\ image' = NoImage
    /\ image_bytes' = NoBytes
    /\ exif' = EmptyMap
    /\ gps' = Absent
    /\ iptc' = EmptyMap
    /\ meta_summary' = EmptyMap
    /\ ocr_text' = <<>>
    /\ lang_code' = None
    /\ notices' = {}
    /\ calls' = {}
    /\ document' = [data |-> EmptyMap, file_name |-> <<>>]
    /\ UNCHANGED flags

Next ==
    \/ NoUpload
    \/ Upload
    \/ DecodeStep
    \/ GpsStep
    \/ IptcStep
    \/ SummaryStep
    \/ OcrStep
    \/ LangStep
    \/ ExportStep
    \/ Rerun

Spec == Init /\ [][Next]_vars

(***************************************************************************)
(* The resolver alone, on every RawMetadataMap of GpsExifs.                *)
(***************************************************************************)
InitGps ==
    /\ pc = "gps_call"
    /\ flags = [ocr |-> TRUE, lang |-> TRUE, iptc |-> TRUE]
    /\ toggles = [ocr_enabled |-> TRUE, lang_detect_enabled |-> TRUE]
    /\ image = NoImage
    /\ image_bytes = NoBytes
    /\ exif \in GpsExifs
    /\ gps = Absent
    /\ iptc = EmptyMap
    /\ meta_summary = EmptyMap
    /\ ocr_text = <<>>
    /\ lang_code = None
    /\ notices = {}
    /\ calls = {}
    /\ document = [data |-> EmptyMap, file_name |-> <<>>]

GpsCall ==
    /\ pc = "gps_call"
    /\ gps' = extract_gps_from_exif(exif)
    /\ calls' = calls \cup {"extract_gps_from_exif"}
    /\ pc' = "gps_returned"
    /\ UNCHANGED <<flags, toggles, image, image_bytes, exif, iptc, meta_summary, ocr_text,
                   lang_code, notices, document>>

NextGps == GpsCall

SpecGps == InitGps /\ [][NextGps]_vars

(***************************************************************************)
(* Properties of the resolver, checked under SpecGps.                      *)
(***************************************************************************)
Returned == pc = "gps_returned"

\* the GPS sub-mapping of a RawMetadataMap, when it is a mapping
HasGpsMapping(ex) == "GPSInfo" \in DOMAIN ex /\ ex["GPSInfo"].t = "dict"
GpsMapping(ex) == ex["GPSInfo"].d

\* entry k is absent from the GPSInfo value: no GPSInfo key, a mapping without
\* the key k, a text or a number, a byte sequence or tuple that does not hold k
EntryAbsent(ex, k) ==
    \/ "GPSInfo" \notin DOMAIN ex
    \/ LET v == ex["GPSInfo"]
       IN  CASE v.t = "dict" -> k \notin DOMAIN v.d
             [] v.t = "bytes" -> \A i \in 1..Len(v.b) : v.b[i] # k
             [] v.t = "tuple" -> \A i \in 1..Len(v.e) : v.e[i].t = "int" => v.e[i].i # k
             [] OTHER -> TRUE

\* the value of a rational as the pair <<numerator, denominator>>: n/d for a
\* two-element rational, 0 when d is zero or the conversion fails
RatValue(r) ==
    IF r.t = "tuple" /\ Len(r.e) = 2 /\ r.e[1].t = "int" /\ r.e[2].t = "int" /\ r.e[2].i # 0
    THEN <<r.e[1].i, r.e[2].i>>
    ELSE IF r.t = "int" THEN <<r.i, 1>> ELSE <<0, 1>>

\* a two-element rational n/d with n >= 0 and d > 0, or a plain number >= 0
ValidRational(r) ==
    \/ r.t = "tuple" /\ Len(r.e) = 2 /\ r.e[1].t = "int" /\ r.e[2].t = "int"
       /\ r.e[1].i >= 0 /\ r.e[2].i > 0
    \/ r.t = "int" /\ r.i >= 0

IsTriple(v) == v.t = "tuple" /\ Len(v.e) = 3

HasBothTriples(ex) ==
    /\ HasGpsMapping(ex)
    /\ ~EntryAbsent(ex, 2)
    /\ ~EntryAbsent(ex, 4)
    /\ IsTriple(GpsMapping(ex)[2])
    /\ IsTriple(GpsMapping(ex)[4])

ValidTriples(ex) ==
    /\ HasBothTriples(ex)
    /\ \A k \in {2, 4} : \A i \in 1..3 : ValidRational(GpsMapping(ex)[k].e[i])

\* degrees + minutes/60 + seconds/3600 of a triple, rounded half-even to the
\* nearest 1e-7 degree: the quotient N/D taken to three and then four places
ExpectedE7(v) ==
    LET a == RatValue(v.e[1])
        b == RatValue(v.e[2])
        c == RatValue(v.e[3])
        D == 3600 * a[2] * b[2] * c[2]
        N == 3600 * a[1] * b[2] * c[2] + 60 * b[1] * a[2] * c[2] + c[1] * a[2] * b[2]
        q1 == (N * 1000) \div D
        r1 == (N * 1000) % D
        q2 == (r1 * 10000) \div D
        r2 == (r1 * 10000) % D
        t == q1 * 10000 + q2
    IN  IF 2 * r2 > D \/ (2 * r2 = D /\ t % 2 = 1) THEN t + 1 ELSE t

NorthRefs == {Str(<<"N">>), Str(<<"n">>), Bytes(<<78>>), Bytes(<<110>>)}
SouthRefs == {Str(<<"S">>), Str(<<"s">>), Bytes(<<83>>), Bytes(<<115>>)}
EastRefs == {Str(<<"E">>), Str(<<"e">>), Bytes(<<69>>), Bytes(<<101>>)}
WestRefs == {Str(<<"W">>), Str(<<"w">>), Bytes(<<87>>), Bytes(<<119>>)}

IsNorth(ex) == 1 \notin DOMAIN GpsMapping(ex) \/ GpsMapping(ex)[1] \in NorthRefs
IsSouth(ex) == 1 \in DOMAIN GpsMapping(ex) /\ GpsMapping(ex)[1] \in SouthRefs
IsEast(ex) == 3 \notin DOMAIN GpsMapping(ex) \/ GpsMapping(ex)[3] \in EastRefs
IsWest(ex) == 3 \in DOMAIN GpsMapping(ex) /\ GpsMapping(ex)[3] \in WestRefs

\* the same RawMetadataMap with the references "N" and "E"
NorthEast(ex) ==
    "GPSInfo" :> Dict((1 :> Str(<<"N">>)) @@ (3 :> Str(<<"E">>)) @@ GpsMapping(ex))

\* C1: for a GPS sub-mapping with both triples of valid non-negative
\* rationals, the latitude is >= 0 under the reference "N" (or none) and is
\* the negated value under "S", the longitude is >= 0 under "E" (or none) and
\* the negated value under "W"; the case of the reference and its being text
\* or bytes make no difference.
C1_ReferenceSign ==
    (Returned /\ ValidTriples(exif) /\ (IsNorth(exif) \/ IsSouth(exif))
       /\ (IsEast(exif) \/ IsWest(exif)))
    => LET ne == extract_gps_from_exif(NorthEast(exif))
       IN  /\ gps.kind = "coord"
           /\ ne.kind = "coord"
           /\ ne.lat >= 0
           /\ ne.lon >= 0
           /\ IsNorth(exif) => gps.lat = ne.lat
           /\ IsSouth(exif) => gps.lat = -ne.lat
           /\ IsEast(exif) => gps.lon = ne.lon
           /\ IsWest(exif) => gps.lon = -ne.lon

\* a lower-case "s" and a bytes "W" have flipped both signs
C1_Witness ==
    /\ Returned
    /\ ValidTriples(exif)
    /\ 1 \in DOMAIN GpsMapping(exif) /\ GpsMapping(exif)[1] = Str(<<"s">>)
    /\ 3 \in DOMAIN GpsMapping(exif) /\ GpsMapping(exif)[3] = Bytes(<<87>>)
    /\ gps.kind = "coord"
    /\ gps.lat < 0
    /\ gps.lon < 0

\* the reference is text, bytes or missing
TextRef(ex, k) == k \in DOMAIN GpsMapping(ex) => GpsMapping(ex)[k].t \in {"str", "bytes"}

C3_AbsentEntryGivesAbsent ==
    (Returned /\ (EntryAbsent(exif, 2) \/ EntryAbsent(exif, 4))) => gps.kind = "none"

\* C4: no exception raised during GPS resolution propagates to the caller.
C4_NoExceptionPropagates == Returned => gps.kind # "raise"

\* C5: a returned coordinate has its latitude in [-90, 90] and its longitude
\* in [-180, 180].
C5_CoordinateRange ==
    (Returned /\ gps.kind = "coord")
    => /\ -900000000 <= gps.lat /\ gps.lat <= 900000000
       /\ -1800000000 <= gps.lon /\ gps.lon <= 1800000000

(***************************************************************************)
(* Properties of the presenter, checked under Spec.                        *)
(***************************************************************************)
Exported == pc = "exported"

\* C6: with the OCR toggle disabled the exported document has an empty
\* ocr_text and an absent ocr_language, whatever the capability flags and
\* the language toggle, and neither perform_ocr nor detect_language is called.
C6_OcrDisabled ==
    (Exported /\ ~toggles.ocr_enabled)
    => /\ document.data["ocr_text"] = <<>>
       /\ document.data["ocr_language"].t = "none"
       /\ "perform_ocr" \notin calls
       /\ "detect_language" \notin calls

\* both capabilities present and the language toggle on, OCR toggled off
C6_Witness ==
    /\ Exported
    /\ ~toggles.ocr_enabled
    /\ toggles.lang_detect_enabled
    /\ flags.ocr
    /\ flags.lang

\* C7: the exported document has a gps field exactly when the resolver
\* returns a coordinate for the decoded metadata, (0.0, 0.0) included, and
\* the "No GPS info found." notice is shown exactly when the field is absent.
C7_GpsFieldIffCoordinate ==
    Exported
    => /\ ("gps" \in DOMAIN document.data)
            <=> (extract_gps_from_exif(document.data["exif"]).kind = "coord")
       /\ (NoGpsNotice \in notices) <=> ("gps" \notin DOMAIN document.data)

\* the coordinate (0.0, 0.0) is exported
C7_Witness ==
    /\ Exported
    /\ "gps" \in DOMAIN document.data
    /\ document.data["gps"].latitude = 0
    /\ document.data["gps"].longitude = 0
    /\ NoGpsNotice \notin notices

\* the notices main() can show about a missing capability
CapabilityNotices(cap) ==
    CASE cap = "ocr" -> {OcrMissingNotice}
      [] cap = "lang" -> {LangMissingNotice}
      [] cap = "iptc" -> {}

\* C8: for each optional capability whose flag is false a notice specific to
\* it is shown, whatever the toggles and the recognized text.
C8_MissingCapabilityNotice ==
    Exported => \A cap \in {"ocr", "lang", "iptc"} :
                    ~flags[cap] => notices \cap CapabilityNotices(cap) # {}

\* C9: a failure inside an extractor never interrupts aggregation: the
\* request of a readable image reaches the export step.
C9_ExtractorFailureContained == pc \notin {"crashed_decode", "crashed_gps"}

AllWhitespace(text) == \A i \in 1..Len(text) : text[i] = " "

\* C10: ocr_language is exported non-absent only with the language toggle
\* on, the language capability present and an ocr_text that is not blank
\* (hence the OCR toggle on and the OCR capability present); detect_language
\* returns absent for an all-whitespace text and for any text without its
\* capability.
C10_LanguageOnlyWhenEnabled ==
    /\ (Exported /\ document.data["ocr_language"].t # "none")
       => /\ toggles.lang_detect_enabled
          /\ flags.lang
          /\ ~AllWhitespace(document.data["ocr_text"])
          /\ toggles.ocr_enabled
          /\ flags.ocr
    /\ \A text \in Texts : \A detector \in Detectors : \A available \in BOOLEAN :
          (~available \/ AllWhitespace(text))
          => detect_language(text, detector, available).t = "none"

\* a language code is exported
C10_Witness ==
    /\ Exported
    /\ document.data["ocr_language"].t = "str"
    /\ document.data["ocr_text"] = <<" ", "a">>

====
